---- MODULE Spec2Model ----
(***************************************************************************)
(* Model of src/index.ts: the test tree built by the declaration API       *)
(* (describe / test / hooks and their .only / .skip variants) and the      *)
(* recursive asynchronous traversal runSuite that executes it.             *)
(*                                                                         *)
(* Suites and tests are objects on a heap (a sequence of records, a        *)
(* reference is an index).  A test file is any sequence of declaration     *)
(* calls; a describe body may throw.  Every hook or test function that     *)
(* runSuite awaits may resolve or reject.                                  *)
(***************************************************************************)
EXTENDS Integers, Sequences, FiniteSets

VARIABLES
    heap,        \* the Suite and Test objects, in allocation order
    state,       \* InternalState: rootSuite, currentSuite, reporters
    callStack,   \* active addSuite calls: the prevSuite local of each
    exc,         \* an exception thrown by a describe body is propagating
    phase,       \* "load", "loadFailed", "run", "done", "rejected"
    frames,      \* active runSuite calls, outermost first
    inflight,    \* actions called and not yet settled
    log,         \* every action call and settlement, in order
    dispatched,  \* every message handed to a reporter, in order
    stdout,      \* number of '.' written
    declared     \* per object, the only/skip arguments of its declaration

vars == <<heap, state, callStack, exc, phase, frames, inflight, log,
          dispatched, stdout, declared>>

\* ------------------------------------------------------------- bounds
\* A test file makes at most MaxDecls declaration calls (describe, test and
\* hook registrations, in any variant); any describe body may throw.
MaxDecls == 3
\* The files of SpecNested: plain describe and test, beforeEach, afterEach.
NestedSuites == 3
NestedTests == 1
NestedPerList == 1

\* The value of an absent name or parent.
undefined == 0

Last(s) == s[Len(s)]
Front(s) == SubSeq(s, 1, Len(s) - 1)

\* ------------------------------------------------------------- tree model
createSuite ==
    [name |-> undefined, parent |-> undefined, only |-> FALSE, skip |-> FALSE,
     contents |-> <<>>, before |-> <<>>, after |-> <<>>,
     beforeEach |-> <<>>, afterEach |-> <<>>]

createTest(name, fn, suite) ==
    [name |-> name, fn |-> fn, suite |-> suite, only |-> FALSE, skip |-> FALSE]

defaultReporter == "defaultReporter"

\* Variant: the root suite is created once and shared by every state.
createStateShared(ref) ==
    [rootSuite |-> 1, currentSuite |-> 1, reporters |-> <<defaultReporter>>]

\* createState allocates a root suite; ref is the reference it gets.
createState(ref) ==
    [rootSuite |-> ref, currentSuite |-> ref, reporters |-> <<defaultReporter>>]

isTest(o) == "fn" \in DOMAIN heap[o]

\* Variant: the loop body runs once, the parent chain is not followed.
\* Variant: the marking stops at a suite that is skipped.
RECURSIVE markUnlessSkipped(_, _)
markUnlessSkipped(h, suite) ==
    IF suite = undefined \/ h[suite].skip
    THEN h
    ELSE markUnlessSkipped([h EXCEPT ![suite].only = TRUE], h[suite].parent)

markSelfOnly(h, suite) ==
    IF suite = undefined THEN h ELSE [h EXCEPT ![suite].only = TRUE]

\* The heap h with only = true on suite and on every suite of its parent
\* chain.
RECURSIVE markAncestorsAndSelfOnly(_, _)
markAncestorsAndSelfOnly(h, suite) ==
    IF suite = undefined
    THEN h
    ELSE markAncestorsAndSelfOnly([h EXCEPT ![suite].only = TRUE],
                                  h[suite].parent)

\* A test function or hook is a closure; it is identified by the call that
\* registered it: the registrant, the suite that was current, and a number
\* (the test's reference, or the hook's position in its list).
Closure(reg, at, n) == [reg |-> reg, at |-> at, n |-> n]

\* Variant: unshift instead of push.
unshiftContent(h, suite, ref) ==
    [h EXCEPT ![suite].contents = <<ref>> \o @]

\* Variant: the new object is pushed onto the root's contents.
pushToRoot(h, suite, ref) ==
    [h EXCEPT ![state.rootSuite].contents = Append(@, ref)]

\* push onto suite.contents
pushContent(h, suite, ref) ==
    [h EXCEPT ![suite].contents = Append(@, ref)]

\* The heap after addTest(name, fn, only, skip); the test's reference is
\* the next free index.
addTest(name, fn, only, skip) ==
    LET ref == Len(heap) + 1
        test == [createTest(name, fn, state.currentSuite)
                    EXCEPT !.skip = skip, !.only = only]
        h1 == Append(heap, test)
        h2 == IF only THEN markAncestorsAndSelfOnly(h1, test.suite) ELSE h1
    IN  pushContent(h2, state.currentSuite, ref)

\* The heap after the part of addSuite(name, fn, only, skip) that precedes
\* the call of fn, up to contents.push.
addSuite(name, only, skip) ==
    LET ref == Len(heap) + 1
        suite == [createSuite EXCEPT !.name = name,
                                     !.parent = state.currentSuite,
                                     !.skip = skip]
        h1 == Append(heap, suite)
        h2 == IF only THEN markAncestorsAndSelfOnly(h1, ref) ELSE h1
    IN  pushContent(h2, state.currentSuite, ref)

Suites == {o \in 1..Len(heap) : ~isTest(o)}
Tests == {o \in 1..Len(heap) : isTest(o)}
NumHooks(s) == Len(heap[s].before) + Len(heap[s].after)
                 + Len(heap[s].beforeEach) + Len(heap[s].afterEach)
RECURSIVE SumHooks(_)
SumHooks(S) ==
    IF S = {} THEN 0
    ELSE LET s == CHOOSE x \in S : TRUE IN NumHooks(s) + SumHooks(S \ {s})
TotalHooks == SumHooks(Suites)

NumDecls == Len(heap) - 1 + TotalHooks

\* What the files of a specification may declare.
Limits == [decls |-> MaxDecls, suites |-> MaxDecls, tests |-> MaxDecls,
           perList |-> MaxDecls]
NestedLimits == [decls |-> NestedSuites + NestedTests
                             + 2 * NestedPerList * (NestedSuites + 1),
                 suites |-> NestedSuites, tests |-> NestedTests,
                 perList |-> NestedPerList]

\* ------------------------------------------------------------- declaration
\* The test files are being loaded and no exception is propagating.
Loading == phase = "load" /\ ~exc

runVars == <<phase, frames, inflight, log, dispatched, stdout>>

\* addSuite up to and including the call of fn: the body of fn is the
\* declaration calls that follow, until DescribeReturn or BodyThrows.
DescribeCall(only, skip, lim) ==
    /\ Loading
    /\ NumDecls < lim.decls
    /\ Cardinality(Suites) <= lim.suites
    /\ heap' = addSuite(Len(heap) + 1, only, skip)
    /\ callStack' = Append(callStack, state.currentSuite)
    /\ state' = [state EXCEPT !.currentSuite = Len(heap) + 1]
    /\ declared' = Append(declared, [only |-> only, skip |-> skip])
    /\ UNCHANGED <<exc, runVars>>

describe(lim) == DescribeCall(FALSE, FALSE, lim)
skipDescribe(lim) == DescribeCall(FALSE, TRUE, lim)
onlyDescribe(lim) == DescribeCall(TRUE, FALSE, lim)

\* fn returned: addSuite restores the cursor and returns.
DescribeReturn ==
    /\ Loading
    /\ callStack # <<>>
    /\ state' = [state EXCEPT !.currentSuite = Last(callStack)]
    /\ callStack' = Front(callStack)
    /\ UNCHANGED <<heap, exc, declared, runVars>>

\* fn threw: addSuite has no handler, so it is left at the call of fn and
\* the assignment that restores the cursor is not executed.
BodyThrows ==
    /\ Loading
    /\ callStack # <<>>
    /\ callStack' = Front(callStack)
    /\ exc' = TRUE
    /\ UNCHANGED <<heap, state, declared, runVars>>

\* The enclosing describe body does not catch the exception: its addSuite
\* call is left the same way.
Propagate ==
    /\ phase = "load"
    /\ exc
    /\ callStack # <<>>
    /\ callStack' = Front(callStack)
    /\ UNCHANGED <<heap, state, exc, declared, runVars>>

\* The code that called describe (an enclosing body, or the test file's top
\* level) catches the exception and goes on declaring.
Catch ==
    /\ phase = "load"
    /\ exc
    /\ exc' = FALSE
    /\ UNCHANGED <<heap, state, callStack, declared, runVars>>

\* Nothing catches it: require throws out of collectTests and runAllTests
\* is never called.
Uncaught ==
    /\ phase = "load"
    /\ exc
    /\ callStack = <<>>
    /\ phase' = "loadFailed"
    /\ UNCHANGED <<heap, state, callStack, exc, declared, frames,
                   inflight, log, dispatched, stdout>>

\* Variant: declaring a test calls its function on the spot.
TestCallInvoking(only, skip, lim) ==
    /\ Loading
    /\ NumDecls < lim.decls
    /\ Cardinality(Tests) < lim.tests
    /\ LET ref == Len(heap) + 1
           fn == Closure("test", state.currentSuite, ref)
       IN  /\ heap' = addTest(ref, fn, only, skip)
           /\ log' = Append(log, [ev |-> "start", via |-> "fn", fn |-> fn,
                                  ctx |-> ref])
    /\ declared' = Append(declared, [only |-> only, skip |-> skip])
    /\ UNCHANGED <<state, callStack, exc, phase, frames, inflight,
                   dispatched, stdout>>

TestCall(only, skip, lim) ==
    /\ Loading
    /\ NumDecls < lim.decls
    /\ Cardinality(Tests) < lim.tests
    /\ LET ref == Len(heap) + 1
       IN  heap' = addTest(ref, Closure("test", state.currentSuite, ref),
                           only, skip)
    /\ declared' = Append(declared, [only |-> only, skip |-> skip])
    /\ UNCHANGED <<state, callStack, exc, runVars>>

test(lim) == TestCall(FALSE, FALSE, lim)
skipTest(lim) == TestCall(FALSE, TRUE, lim)
onlyTest(lim) == TestCall(TRUE, FALSE, lim)

\* state.currentSuite[list].push(fn)
Register(list, lim) ==
    /\ Loading
    /\ NumDecls < lim.decls
    /\ Len(heap[state.currentSuite][list]) < lim.perList
    /\ heap' = [heap EXCEPT ![state.currentSuite][list] =
                   Append(@, Closure(list, state.currentSuite, Len(@) + 1))]
    /\ UNCHANGED <<state, callStack, exc, declared, runVars>>

before(lim) == Register("before", lim)
after(lim) == Register("after", lim)
beforeEach(lim) == Register("beforeEach", lim)
afterEach(lim) == Register("afterEach", lim)

\* ------------------------------------------------------------- execution
\* A runSuite call: its arguments (suite, opts), where it stands (pc: the
\* loop it is in; i: the index into that loop's list; c: the index into
\* suite.contents), and its locals contentsHasOnly and nextOpts.
NewFrame(suite, opts) ==
    [suite |-> suite, opts |-> opts, pc |-> "before", i |-> 1, c |-> 0,
     contentsHasOnly |-> FALSE, nextOpts |-> opts]

\* Variant: the contents are never taken to hold an only-marked object.
contentsNeverOnly(suite) == FALSE

\* Variant: a suite that is marked only filters like one that has an only
\* child.
contentsOrSelfOnly(suite) ==
    \/ heap[suite].only
    \/ \E k \in 1..Len(heap[suite].contents) : heap[heap[suite].contents[k]].only

\* suite.contents.some(content => content.only)
contentsHasOnly(suite) ==
    \E k \in 1..Len(heap[suite].contents) : heap[heap[suite].contents[k]].only

\* Variant: the first continue statement is missing.
FilteredBySkip(hasOnly, content) == heap[content].skip

\* Variant: the second continue statement spares contents marked only.
FilteredUnlessOnly(hasOnly, content) ==
    \/ hasOnly /\ ~heap[content].only
    \/ heap[content].skip /\ ~heap[content].only

\* The two continue statements of the contents loop.
Filtered(hasOnly, content) ==
    \/ hasOnly /\ ~heap[content].only
    \/ heap[content].skip

nextOpts(opts, suite, content) ==
    [names |-> Append(opts.names, heap[content].name),
     beforeEach |-> opts.beforeEach \o heap[suite].beforeEach,
     afterEach |-> opts.afterEach \o heap[suite].beforeEach]

\* The content the contents loop of frame f is at.
Content(f) == heap[f.suite].contents[f.c]

\* Variant: the after loop iterates over suite.before.
LoopListAfterFromBefore(f) ==
    CASE f.pc = "before" -> heap[f.suite].before
      [] f.pc = "beforeEach" -> f.nextOpts.beforeEach
      [] f.pc = "fn" -> <<heap[heap[f.suite].contents[f.c]].fn>>
      [] f.pc = "afterEach" -> f.nextOpts.afterEach
      [] f.pc = "after" -> heap[f.suite].before

\* The list the loop of frame f iterates over.
LoopList(f) ==
    CASE f.pc = "before" -> heap[f.suite].before
      [] f.pc = "beforeEach" -> f.nextOpts.beforeEach
      [] f.pc = "fn" -> <<heap[Content(f)].fn>>
      [] f.pc = "afterEach" -> f.nextOpts.afterEach
      [] f.pc = "after" -> heap[f.suite].after

\* An entry of the log: what happened (ev), in which loop of runSuite (via),
\* to which function (fn), for which suite or test (ctx).
Event(ev, via, fn, ctx) == [ev |-> ev, via |-> via, fn |-> fn, ctx |-> ctx]
SuiteEvent(ev, suite) ==
    Event(ev, "runSuite", Closure("runSuite", suite, 0), suite)

\* The action frame f is about to call, or is awaiting.
Pending(f) ==
    [via |-> f.pc, fn |-> LoopList(f)[f.i],
     ctx |-> IF f.pc \in {"before", "after"} THEN f.suite ELSE Content(f)]

SetTop(fs, f) == [fs EXCEPT ![Len(fs)] = f]

\* runSuite's control flow from where the innermost frame stands to the
\* next call of a hook or test function, or to the return of the outermost
\* runSuite (no frame is left).  lg is the log, extended by the runSuite
\* calls and returns on the way.
RECURSIVE Advance(_, _)
Advance(fs, lg) ==
    IF fs = <<>> THEN [frames |-> fs, log |-> lg]
    ELSE
    LET f == Last(fs) IN
    CASE f.pc = "contents" ->
           IF f.c > Len(heap[f.suite].contents)
           THEN Advance(SetTop(fs, [f EXCEPT !.pc = "after", !.i = 1]), lg)
           ELSE IF Filtered(f.contentsHasOnly, Content(f))
           THEN Advance(SetTop(fs, [f EXCEPT !.c = @ + 1]), lg)
           ELSE LET no == nextOpts(f.opts, f.suite, Content(f)) IN
                IF isTest(Content(f))
                THEN Advance(SetTop(fs, [f EXCEPT !.pc = "beforeEach", !.i = 1,
                                                  !.nextOpts = no]), lg)
                ELSE Advance(Append(SetTop(fs, [f EXCEPT !.nextOpts = no]),
                                    NewFrame(Content(f), no)),
                             Append(lg, SuiteEvent("enter", Content(f))))
      [] f.pc # "contents" /\ f.i <= Len(LoopList(f)) ->
           [frames |-> fs, log |-> lg]
      [] f.pc = "before" /\ f.i > Len(LoopList(f)) ->
           Advance(SetTop(fs, [f EXCEPT !.pc = "contents", !.c = 1,
                        !.contentsHasOnly = contentsHasOnly(f.suite)]), lg)
      [] f.pc = "beforeEach" /\ f.i > Len(LoopList(f)) ->
           Advance(SetTop(fs, [f EXCEPT !.pc = "fn", !.i = 1]), lg)
      [] f.pc = "fn" /\ f.i > Len(LoopList(f)) ->
           Advance(SetTop(fs, [f EXCEPT !.pc = "afterEach", !.i = 1]), lg)
      [] f.pc = "afterEach" /\ f.i > Len(LoopList(f)) ->
           Advance(SetTop(fs, [f EXCEPT !.pc = "contents", !.c = @ + 1]), lg)
      [] f.pc = "after" /\ f.i > Len(LoopList(f)) ->
           LET rest == Front(fs)
               lg1 == Append(lg, SuiteEvent("return", f.suite))
           IN  IF rest = <<>>
               THEN [frames |-> rest, log |-> lg1]
               ELSE Advance(SetTop(rest, [Last(rest) EXCEPT !.c = @ + 1]), lg1)

\* state.reporters.forEach(reporter => reporter(message))
dispatchReporters(message) ==
    dispatched \o [k \in 1..Len(state.reporters) |->
                     [reporter |-> state.reporters[k], message |-> message]]

\* Variant: the calls are not awaited.
NeverAwaiting == FALSE

\* runSuite is suspended at an await.
Awaiting == inflight # {}

\* The files are loaded: runAllTests calls runSuite on the root.
runAllTests ==
    /\ Loading
    /\ callStack = <<>>
    /\ LET root == state.rootSuite
           r == Advance(<<NewFrame(root, [names |-> <<>>, beforeEach |-> <<>>,
                                          afterEach |-> <<>>])>>,
                        Append(log, SuiteEvent("enter", root)))
       IN  /\ frames' = r.frames
           /\ log' = r.log
           /\ phase' = IF r.frames = <<>> THEN "done" ELSE "run"
    /\ UNCHANGED <<heap, state, callStack, exc, inflight, dispatched, stdout,
                   declared>>

\* runSuite calls the next hook or test function and awaits it.
Call ==
    /\ phase = "run"
    /\ ~Awaiting
    /\ LET a == Pending(Last(frames))
       IN  /\ inflight' = inflight \cup {a}
           /\ log' = Append(log, Event("start", a.via, a.fn, a.ctx))
    /\ UNCHANGED <<heap, state, callStack, exc, phase, frames, dispatched,
                   stdout, declared>>

\* Variant: the loop does not move on after the awaited action: the same
\* function is called again.
ResolveInPlace ==
    /\ phase = "run"
    /\ \E a \in inflight :
         /\ a = Pending(Last(frames))
         /\ inflight' = inflight \ {a}
         /\ log' = Append(log, Event("ok", a.via, a.fn, a.ctx))
    /\ UNCHANGED <<heap, state, callStack, exc, phase, frames, dispatched,
                   stdout, declared>>

\* The awaited action completes: runSuite goes on (after a test function,
\* with the '.' it writes).
Resolve ==
    /\ phase = "run"
    /\ \E a \in inflight :
         LET f == Last(frames)
             r == Advance(SetTop(frames, [f EXCEPT !.i = @ + 1]),
                          Append(log, Event("ok", a.via, a.fn, a.ctx)))
         IN  /\ a = Pending(f)
             /\ inflight' = inflight \ {a}
             /\ frames' = r.frames
             /\ log' = r.log
             /\ phase' = IF r.frames = <<>> THEN "done" ELSE "run"
             /\ stdout' = IF f.pc = "fn" THEN stdout + 1 ELSE stdout
    /\ UNCHANGED <<heap, state, callStack, exc, dispatched, declared>>

\* Variant: the handler of the before loop throws again without reporting.
HandledSilently(f) == dispatched

\* What runSuite does with the exception of an awaited action: only the
\* before loop has a handler, which reports and throws again.
Handled(f) ==
    IF f.pc = "before"
    THEN dispatchReporters([type |-> "beforeHookError"])
    ELSE dispatched

\* The awaited action throws or rejects.  No runSuite call on the stack and
\* not runAllTests catches what runSuite throws: the run ends rejected.
Reject ==
    /\ phase = "run"
    /\ \E a \in inflight :
         LET f == Last(frames)
         IN  /\ a = Pending(f)
             /\ inflight' = inflight \ {a}
             /\ log' = Append(log, Event("fail", a.via, a.fn, a.ctx))
             /\ dispatched' = Handled(f)
             /\ frames' = <<>>
             /\ phase' = "rejected"
    /\ UNCHANGED <<heap, state, callStack, exc, stdout, declared>>

Init ==
    /\ heap = <<createSuite>>
    /\ state = createState(1)
    /\ callStack = <<>>
    /\ exc = FALSE
    /\ phase = "load"
    /\ frames = <<>>
    /\ inflight = {}
    /\ log = <<>>
    /\ dispatched = <<>>
    /\ stdout = 0
    /\ declared = <<[only |-> FALSE, skip |-> FALSE]>>

Next ==
    \/ describe(Limits)
    \/ skipDescribe(Limits)
    \/ onlyDescribe(Limits)
    \/ DescribeReturn
    \/ BodyThrows
    \/ Propagate
    \/ Catch
    \/ Uncaught
    \/ test(Limits)
    \/ skipTest(Limits)
    \/ onlyTest(Limits)
    \/ before(Limits)
    \/ after(Limits)
    \/ beforeEach(Limits)
    \/ afterEach(Limits)
    \/ runAllTests
    \/ Call
    \/ Resolve
    \/ Reject

Spec == Init /\ [][Next]_vars

\* Files that nest plain suites and register beforeEach and afterEach hooks.
NextNested ==
    \/ describe(NestedLimits)
    \/ DescribeReturn
    \/ test(NestedLimits)
    \/ beforeEach(NestedLimits)
    \/ afterEach(NestedLimits)
    \/ runAllTests
    \/ Call
    \/ Resolve
    \/ Reject

SpecNested == Init /\ [][NextNested]_vars

\* The suites without a parent: the root of every state created so far.
\* The run under the assumption that runSuite is resumed after each await
\* and that every action that was called settles.  Resolve and Reject are
\* enabled in the same states (an action is in flight) and a step of either
\* disables both, so weak fairness of one of them says that no action stays
\* in flight for ever, whichever way it settles.
SpecFair == Spec /\ WF_vars(Call) /\ WF_vars(Reject)

Roots == {o \in Suites : heap[o].parent = undefined}

\* main, once the modules named by --require are loaded (they may have
\* declared into the state created at module load): state = createState().
\* The objects of the replaced state stay on the heap.
resetState ==
    /\ Loading
    /\ callStack = <<>>
    /\ Cardinality(Roots) = 1
    /\ heap' = Append(heap, createSuite)
    /\ state' = createState(Len(heap) + 1)
    /\ declared' = Append(declared, [only |-> FALSE, skip |-> FALSE])
    /\ UNCHANGED <<callStack, exc, runVars>>

\* The whole of main: declarations of required modules, the reset, the
\* declarations of the test files, the run.  The root created by the reset
\* takes one of the MaxDecls heap places.
NextCycle ==
    \/ Next
    \/ resetState

SpecCycle == Init /\ [][NextCycle]_vars

\* ------------------------------------------------------------- vocabulary
\* The suite an object was declared in (undefined for the root).
Parent(o) == IF isTest(o) THEN heap[o].suite ELSE heap[o].parent

RECURSIVE Ancestors(_)
Ancestors(o) ==
    IF Parent(o) = undefined THEN {} ELSE {Parent(o)} \cup Ancestors(Parent(o))

Subtree(o) == {x \in 1..Len(heap) : x = o \/ o \in Ancestors(x)}
Children(s) == {x \in 1..Len(heap) : Parent(x) = s}

\* Positions of the log.
Starts(via) == {k \in 1..Len(log) : log[k].ev = "start" /\ log[k].via = via}
Failures == {k \in 1..Len(log) : log[k].ev = "fail"}
Entered == {log[k].ctx : k \in {j \in 1..Len(log) : log[j].ev = "enter"}}
RanTests == {log[k].ctx : k \in Starts("fn")}
Finished == phase \in {"done", "rejected"}
NoneSkipped == \A o \in 1..Len(heap) : ~declared[o].skip
NoneOnly == \A o \in 1..Len(heap) : ~declared[o].only

\* The functions called for ctx in loop via, in the order of their calls.
RECURSIVE CalledFrom(_, _, _)
CalledFrom(k, via, ctx) ==
    IF k > Len(log) THEN <<>>
    ELSE (IF log[k].ev = "start" /\ log[k].via \in via /\ log[k].ctx = ctx
          THEN <<log[k].fn>> ELSE <<>>) \o CalledFrom(k + 1, via, ctx)
Called(via, ctx) == CalledFrom(1, via, ctx)

\* The tests below o, in declaration order (references are given out in
\* declaration order).
RECURSIVE Preorder(_), PreorderAll(_)
Preorder(o) == IF isTest(o) THEN <<o>> ELSE PreorderAll(Children(o))
PreorderAll(S) ==
    IF S = {} THEN <<>>
    ELSE LET m == CHOOSE x \in S : \A y \in S : x <= y
         IN  Preorder(m) \o PreorderAll(S \ {m})

RECURSIVE TestsCalledFrom(_)
TestsCalledFrom(k) ==
    IF k > Len(log) THEN <<>>
    ELSE (IF k \in Starts("fn") THEN <<log[k].ctx>> ELSE <<>>)
         \o TestsCalledFrom(k + 1)

\* ------------------------------------------------------------- claims

\* C1: in a tree declared without only and skip markers, while no action
\* has failed, whatever is run for a child of a suite (or below it) has
\* completed before anything is run for a child declared later (or below
\* it); and a run that finishes has run every test, in declaration order.
C1_DeclarationOrder ==
    (NoneOnly /\ NoneSkipped /\ Failures = {}) =>
        /\ \A s \in Suites : \A c1, c2 \in Children(s) :
             c1 < c2 =>
               \A j, k \in 1..Len(log) :
                 (log[j].ctx \in Subtree(c2) /\ log[k].ctx \in Subtree(c1))
                   => k < j
        /\ phase = "done" => TestsCalledFrom(1) = Preorder(state.rootSuite)

\* A finished run of an unmarked tree in which a suite with a test in it
\* was declared before a sibling test: both tests ran.
C1_Witness ==
    /\ phase = "done" /\ NoneOnly /\ NoneSkipped
    /\ \E s \in Suites : \E c1, c2 \in Children(s) :
         /\ c1 < c2 /\ ~isTest(c1) /\ isTest(c2)
         /\ c2 \in RanTests
         /\ \E t \in Subtree(c1) : t \in RanTests

\* The tests declared with test.only.
OnlyTests == {t \in Tests : declared[t].only}

\* What C2 promises about the single test t declared with test.only.
OnlyThat(t) ==
    /\ RanTests \subseteq {t}
    /\ Entered \subseteq Ancestors(t)
    /\ \A k \in 1..Len(log) : log[k].fn.at \in Ancestors(t)
    /\ phase = "done" => (t \in RanTests /\ Ancestors(t) \subseteq Entered)

\* C2 as stated: exactly one test is declared with test.only and no node
\* is skipped; then only that test runs, every ancestor suite of it is
\* entered (in a run that completes) and no other suite is entered, so no
\* hook of another suite runs.
C2_Original ==
    (Cardinality(OnlyTests) = 1 /\ NoneSkipped) =>
        \A t \in OnlyTests : OnlyThat(t)

\* C2 as amended: the same, when moreover no suite is declared with
\* describe.only.
C2_OnlyTestAlone ==
    (/\ Cardinality(OnlyTests) = 1
     /\ NoneSkipped
     /\ \A s \in Suites : ~declared[s].only) =>
        \A t \in OnlyTests : OnlyThat(t)

\* A completed run of a tree with one test.only beside a suite that has a
\* hook: the test ran, the suite was not entered.
C2_Witness ==
    /\ phase = "done"
    /\ Cardinality(OnlyTests) = 1 /\ NoneSkipped
    /\ \A s \in Suites : ~declared[s].only
    /\ \E t \in OnlyTests : \E s \in Suites :
         /\ t \in RanTests
         /\ s \notin Ancestors(t) /\ NumHooks(s) > 0 /\ s \notin Entered

\* C3: nothing is run for, and no function registered in, the subtree of a
\* suite declared with describe.skip, whatever only markers that subtree
\* holds.
C3_SkipWins ==
    \A s \in Suites :
       declared[s].skip =>
         \A k \in 1..Len(log) :
            log[k].ctx \notin Subtree(s) /\ log[k].fn.at \notin Subtree(s)

\* A finished run of a tree with a describe.skip suite that holds a hook and
\* a node declared only.
C3_Witness ==
    /\ phase = "done"
    /\ \E s \in Suites :
         /\ declared[s].skip
         /\ \E o \in Subtree(s) : o # s /\ declared[o].only
         /\ \E x \in Subtree(s) : ~isTest(x) /\ NumHooks(x) > 0

\* The loops of runSuite that run a test: its beforeEach chain, its fn and
\* its afterEach chain.
TestLoops == {"beforeEach", "fn", "afterEach"}

\* C4: a failure of a test's fn, or of a beforeEach or afterEach action of
\* its chain, does not unwind past runSuite, and when the run has finished
\* every later sibling that passes the only/skip filter has been run.
C4_TestFailureContained ==
    \A k \in Failures :
       log[k].via \in TestLoops =>
         /\ phase # "rejected"
         /\ Finished =>
              LET t == log[k].ctx
                  s == heap[t].suite
              IN  \A c \in Children(s) :
                    (c > t /\ ~Filtered(contentsHasOnly(s), c)) =>
                       \E j \in 1..Len(log) : log[j].ctx = c

\* The afterEach lists of the suites from the root down to s, concatenated.
RECURSIVE Chain(_, _)
Chain(s, list) ==
    IF s = undefined THEN <<>> ELSE Chain(heap[s].parent, list) \o heap[s][list]

IsPrefix(p, q) == Len(p) <= Len(q) /\ p = SubSeq(q, 1, Len(p))

\* Test t was run and runSuite has gone past its afterEach loop.
Completed(t) ==
    \E k \in Starts("fn") :
       /\ log[k].ctx = t
       /\ \/ phase = "done"
          \/ \E j \in k + 1..Len(log) : log[j].ctx # t

\* C5: the actions called after a test's fn are the afterEach lists of its
\* enclosing suites, root first, and nothing registered with beforeEach is
\* among them.
C5_AfterEachChain ==
    /\ \A k \in Starts("afterEach") : log[k].fn.reg = "afterEach"
    /\ \A t \in RanTests :
         /\ IsPrefix(Called({"afterEach"}, t), Chain(heap[t].suite, "afterEach"))
         /\ Completed(t) =>
              Called({"afterEach"}, t) = Chain(heap[t].suite, "afterEach")

\* Test t lies in three nested suites under the root, each of which
\* registered one beforeEach and one afterEach (the root none).
ThreeDeep(t) ==
    LET s3 == heap[t].suite
        s2 == heap[s3].parent
        s1 == IF s2 = undefined THEN undefined ELSE heap[s2].parent
    IN  /\ s2 # undefined /\ s1 # undefined
        /\ heap[s1].parent = state.rootSuite
        /\ \A s \in {s1, s2, s3} :
             Len(heap[s].beforeEach) = 1 /\ Len(heap[s].afterEach) = 1
        /\ heap[state.rootSuite].beforeEach = <<>>
        /\ heap[state.rootSuite].afterEach = <<>>

\* C6: around such a test the calls are: the beforeEach of the outermost
\* suite, of the middle one, of the test's own suite, the test body, the
\* afterEach of the test's own suite, then the afterEach of the two
\* ancestors.
C6_NestedHookOrder ==
    \A t \in Tests :
       (ThreeDeep(t) /\ phase = "done") =>
         LET s3 == heap[t].suite
             s2 == heap[s3].parent
             s1 == heap[s2].parent
             calls == Called(TestLoops, t)
         IN  /\ Len(calls) = 7
             /\ SubSeq(calls, 1, 5) =
                  <<heap[s1].beforeEach[1], heap[s2].beforeEach[1],
                    heap[s3].beforeEach[1], heap[t].fn, heap[s3].afterEach[1]>>
             /\ {calls[6], calls[7]} =
                  {heap[s2].afterEach[1], heap[s1].afterEach[1]}

\* C7: when a before action of a suite fails, every reporter has got a
\* beforeHookError message, nothing is called afterwards (no later before
\* action, no test, no nested suite, no after action), the suite's runSuite
\* call does not return and the run ends rejected.
C7_BeforeHookFailure ==
    \A k \in Failures :
       log[k].via = "before" =>
         /\ k = Len(log)
         /\ dispatched = [j \in 1..Len(state.reporters) |->
                            [reporter |-> state.reporters[j],
                             message |-> [type |-> "beforeHookError"]]]
         /\ phase = "rejected"
         /\ frames = <<>> /\ inflight = {}

\* The first of two before actions of a suite that has contents failed.
C7_Witness ==
    \E k \in Failures :
       /\ log[k].via = "before"
       /\ Len(heap[log[k].ctx].before) >= 2
       /\ log[k].fn = heap[log[k].ctx].before[1]
       /\ heap[log[k].ctx].contents # <<>>

\* All before actions of suite s were called and completed.
BeforeSucceeded(s) ==
    \A i \in 1..Len(heap[s].before) :
       \E k \in 1..Len(log) :
          log[k].ev = "ok" /\ log[k].via = "before" /\ log[k].ctx = s
            /\ log[k].fn = heap[s].before[i]

\* C8: when the run has finished and nothing but tests (their fn or their
\* beforeEach/afterEach chain) failed, every entered suite whose before
\* actions succeeded has had its after actions called, in registration
\* order, after everything run for its children.
C8_AfterAlwaysRuns ==
    (Finished /\ \A k \in Failures : log[k].via \in TestLoops) =>
       \A s \in Entered :
          BeforeSucceeded(s) =>
            /\ Called({"after"}, s) = heap[s].after
            /\ \A k \in Starts("after") : \A j \in 1..Len(log) :
                 (log[k].ctx = s /\ log[j].ctx \in Subtree(s) \ {s}) => j < k

\* C9: every object whose only flag is set has the flag set on each suite
\* of its parent chain, the root included.
C9_OnlyReachesRoot ==
    \A o \in 1..Len(heap) :
       heap[o].only => \A a \in Ancestors(o) : heap[a].only

\* An only-marked object two suites below the root.
C9_Witness ==
    \E o \in 1..Len(heap) :
       /\ heap[o].only /\ declared[o].only
       /\ Cardinality(Ancestors(o)) >= 2

\* C10: whenever an addSuite call is left, by return or by exception, the
\* cursor is back at the suite that was current when it was called.
C10_CursorRestored ==
    [][Len(callStack') < Len(callStack)
         => state'.currentSuite = Last(callStack)]_vars

\* The objects reachable from suite s through contents, s included.
RECURSIVE Reachable(_)
ReachableAll(S) == UNION {Reachable(x) : x \in S}
Reachable(o) ==
    IF isTest(o) THEN {o}
    ELSE {o} \cup ReachableAll({heap[o].contents[k] :
                                  k \in 1..Len(heap[o].contents)})

\* C11: the step that resets the state makes rootSuite a new suite with no
\* contents and no hooks and makes it the current suite; from then on no
\* object declared before the reset is reachable from the root, the cursor
\* stays in the new tree, and every object declared after the reset is in
\* the new tree.
C11_FreshState ==
    /\ [][state'.rootSuite # state.rootSuite =>
            /\ state'.rootSuite = Len(heap) + 1
            /\ heap'[state'.rootSuite] = createSuite
            /\ state'.currentSuite = state'.rootSuite
            /\ SubSeq(heap', 1, Len(heap)) = heap]_vars
    /\ [](Cardinality(Roots) = 2 =>
            LET r == CHOOSE x \in Roots : x # 1
            IN  /\ state.rootSuite = r
                /\ Reachable(r) = r..Len(heap)
                /\ state.currentSuite \in Reachable(r))

\* Objects were declared before the reset and after it, and the run has
\* finished.
C11_Witness ==
    /\ Cardinality(Roots) = 2
    /\ state.rootSuite > 2
    /\ Len(heap) > state.rootSuite
    /\ phase = "done"

\* C12: at most one action is in progress, and each call in the log is
\* followed directly by its own settlement (or is the one still in
\* progress): no action starts before the previous one has settled.
C12_OneAtATime ==
    /\ Cardinality(inflight) <= 1
    /\ \A k \in 1..Len(log) :
         log[k].ev = "start" =>
           IF k = Len(log)
           THEN inflight = {[via |-> log[k].via, fn |-> log[k].fn,
                             ctx |-> log[k].ctx]}
           ELSE /\ log[k + 1].ev \in {"ok", "fail"}
                /\ log[k + 1].fn = log[k].fn
                /\ log[k + 1].ctx = log[k].ctx
    /\ (log # <<>> /\ Last(log).ev # "start") => inflight = {}

\* An action of a nested suite is in progress after an earlier action has
\* completed.
C12_Witness ==
    /\ inflight # {}
    /\ Len(frames) >= 2
    /\ \E k \in 1..Len(log) : log[k].ev = "ok"

\* Object o was run: its fn was called (a test) or runSuite was called on
\* it (a suite).
WasRun(o) == IF isTest(o) THEN o \in RanTests ELSE o \in Entered

\* C13: in a run that completes, every entered suite none of whose immediate
\* children is only-marked has had each of its children that is not
\* skip-marked run, whatever the only flags of the suite itself and of the
\* objects around it.
C13_FilterPerSiblingGroup ==
    phase = "done" =>
       \A s \in Entered :
          (\A c \in Children(s) : ~heap[c].only) =>
             \A c \in Children(s) : ~heap[c].skip => WasRun(c)

\* A completed run entered a suite declared with describe.only that holds
\* two plain tests, and ran both.
C13_Witness ==
    /\ phase = "done"
    /\ \E s \in Entered :
         /\ declared[s].only
         /\ \E c1, c2 \in Children(s) :
              /\ c1 # c2
              /\ ~heap[c1].only /\ ~heap[c2].only
              /\ c1 \in RanTests /\ c2 \in RanTests

\* The positions of the log that belong to a proper descendant of suite s.
Below(s) ==
    LET below == Subtree(s) \ {s}
    IN  {k \in 1..Len(log) : log[k].ctx \in below}

\* C14: while no action has failed, runSuite has been called at most once
\* on each suite; the before actions of an entered suite are called in
\* registration order, each once, before anything is run for a descendant;
\* its after actions are called in registration order, each once, after
\* everything run for a descendant has completed; and a run that completes
\* has called them all.
C14_SuiteHooksOnce ==
    Failures = {} =>
       \A s \in Entered :
          LET below == Below(s)
              befores == Called({"before"}, s)
              afters == Called({"after"}, s)
          IN
          /\ Cardinality({k \in 1..Len(log) :
                            log[k].ev = "enter" /\ log[k].ctx = s}) = 1
          /\ IsPrefix(befores, heap[s].before)
          /\ IsPrefix(afters, heap[s].after)
          /\ \A k \in 1..Len(log) : \A j \in below :
               /\ (log[k].via = "before" /\ log[k].ctx = s) => k < j
               /\ (log[k].via = "after" /\ log[k].ctx = s) => j < k
          /\ (below # {} \/ afters # <<>>) =>
               /\ befores = heap[s].before
               /\ \A i \in 1..Len(heap[s].before) :
                    \E k \in 1..Len(log) :
                       /\ log[k].ev = "ok" /\ log[k].via = "before"
                       /\ log[k].ctx = s /\ log[k].fn = heap[s].before[i]
                       /\ \A j \in below : k < j
          /\ phase = "done" =>
               /\ befores = heap[s].before
               /\ afters = heap[s].after

\* A completed run without failure of a suite that has a before action, an
\* after action and a test.
C14_Witness ==
    /\ phase = "done" /\ Failures = {}
    /\ \E s \in Entered :
         /\ heap[s].before # <<>> /\ heap[s].after # <<>>
         /\ \E t \in Children(s) : t \in RanTests

\* How often object o occurs in the contents of suite s.
Occurs(o, s) ==
    Cardinality({k \in 1..Len(heap[s].contents) : heap[s].contents[k] = o})

\* C15: at any point of the declarations the root has no parent and is in
\* no contents list, every other object occurs once in the contents of the
\* suite its suite/parent field names and in no other contents list; and no
\* step removes or moves an element of a contents list or changes a
\* suite/parent field.
C15_TreeConsistent ==
    /\ [](\A o \in 1..Len(heap) :
            IF o = state.rootSuite
            THEN /\ heap[o].parent = undefined
                 /\ \A s \in Suites : Occurs(o, s) = 0
            ELSE /\ Parent(o) \in Suites
                 /\ \A s \in Suites :
                      Occurs(o, s) = IF s = Parent(o) THEN 1 ELSE 0)
    /\ [][/\ Len(heap') >= Len(heap)
          /\ \A o \in 1..Len(heap) :
               IF isTest(o)
               THEN heap'[o].suite = heap[o].suite
               ELSE /\ heap'[o].parent = heap[o].parent
                    /\ IsPrefix(heap[o].contents, heap'[o].contents)]_vars

\* A test declared in a nested suite, after a describe body threw.
C15_Witness ==
    /\ \E t \in Tests : Cardinality(Ancestors(t)) >= 2
    /\ state.currentSuite # state.rootSuite
    /\ callStack = <<>>

\* C16: while the files are loaded no test function and no hook has been
\* invoked, and a step that declares something (it changes the tree or the
\* cursor) invokes nothing: functions are called by runSuite only.
C16_DeclarationInvokesNothing ==
    /\ [](phase \in {"load", "loadFailed"} =>
            /\ log = <<>>
            /\ inflight = {}
            /\ dispatched = <<>>
            /\ stdout = 0)
    /\ [][(heap' # heap \/ state' # state) =>
            /\ log' = log
            /\ inflight' = inflight]_vars
    /\ [](\A k \in 1..Len(log) :
            log[k].ev = "start" =>
               /\ phase # "load"
               /\ \E f \in {"before", "after", "beforeEach", "afterEach"} :
                    \/ \E s \in Suites : \E i \in 1..Len(heap[s][f]) :
                         heap[s][f][i] = log[k].fn
                    \/ \E t \in Tests : heap[t].fn = log[k].fn)

\* Inside a describe body, with a test declared and a hook registered, and
\* nothing invoked.
C16_Witness ==
    /\ phase = "load"
    /\ callStack # <<>>
    /\ Tests # {}
    /\ TotalHooks > 0
    /\ log = <<>>

\* Some node of the tree is only-marked.
SomeOnly == \E o \in 1..Len(heap) : heap[o].only

\* The objects runAllTests has run: tests whose fn was called and suites
\* runSuite was called on.
RunNodes == RanTests \cup Entered

\* C17 as stated: when some node is only-marked, every test run and every
\* suite entered is only-marked or an ancestor of an only-marked node.
C17_Original ==
    SomeOnly =>
       \A n \in RunNodes :
          \/ heap[n].only
          \/ \E d \in Subtree(n) \ {n} : heap[d].only

\* C17: when some node is only-marked, every test run and every suite
\* entered is only-marked or lies inside a suite declared with
\* describe.only.
C17_OnlyRestrictsExecution ==
    SomeOnly =>
       \A n \in RunNodes :
          \/ heap[n].only
          \/ \E a \in Ancestors(n) : declared[a].only

\* A completed run of a tree with a describe.only suite: a plain test
\* inside it ran, a plain test that is not skipped did not.
C17_Witness ==
    /\ phase = "done"
    /\ \E s \in Entered :
         /\ declared[s].only
         /\ \E t \in Children(s) \cap RanTests : ~heap[t].only
    /\ \E u \in Tests \ RanTests : ~heap[u].skip /\ ~heap[u].only

\* The positions of the log where runSuite was called on suite s.
Enters(s) == {k \in 1..Len(log) : log[k].ev = "enter" /\ log[k].ctx = s}

\* The positions of the log where the function of test t was called.
FnCalls(t) == {k \in Starts("fn") : log[k].ctx = t}

\* C18: when every action that is called settles, a run that has started
\* finishes, by returning or by rejecting; and in a run runSuite is called
\* at most once on each suite and the function of each test at most once.
C18_RunTerminates ==
    /\ (phase = "run") ~> Finished
    /\ [](/\ \A s \in Suites : Cardinality(Enters(s)) <= 1
          /\ \A t \in Tests : Cardinality(FnCalls(t)) <= 1)

\* A run that has returned after entering a nested suite, running a test
\* and calling a hook.
C18_Witness ==
    /\ phase = "done"
    /\ Cardinality(Entered) >= 2
    /\ RanTests # {}
    /\ \E k \in 1..Len(log) : log[k].ev = "ok" /\ log[k].via # "fn"

\* The suites declared with describe.skip that hold a test or suite
\* declared with the only variant.
SkippedWithOnly ==
    {s \in Suites : /\ declared[s].skip
                    /\ \E n \in Subtree(s) \ {s} : declared[n].only}

\* The positions of the log that belong to o or to a descendant of o.
LogOf(o) == {k \in 1..Len(log) : log[k].ctx \in Subtree(o)}

C20_HooksRunOnEntry ==
    (Finished /\ \A k \in Failures : log[k].via \in TestLoops) =>
       /\ state.rootSuite \in Entered
       /\ \A s \in Entered :
            /\ Called({"before"}, s) = heap[s].before
            /\ Called({"after"}, s) = heap[s].after

====
